---- MODULE Spec2Model ----
(***************************************************************************)
(* Piton de la Fournaise seismic dashboards: the eruption alignment and    *)
(* resampling routine (load_aligned_selected, in its two revisions), its   *)
(* memoization, the risk-level classifiers, the spectrogram step and the   *)
(* script of src/app.py.                                                   *)
(*                                                                         *)
(* Time is counted in whole minutes since the Unix epoch (the raw tables   *)
(* hold one row per station per minute).  hours_to_eruption is kept in     *)
(* minutes, i.e. 60 times the value the code computes, so that it stays an *)
(* integer: -80 h is -4800 and +24 h is 1440.                              *)
(* A value that may be missing (NaN) is a set of at most one number.       *)
(***************************************************************************)
EXTENDS Integers, Sequences, FiniteSets, TLC

VARIABLES
    app,                        \* which script runs: "dashboard_v2", "Dashboard", "app"
    fstat,                      \* eruption -> "ok" | "missing" | "corrupt": the CSV file
    files,                      \* eruption -> set of raw rows of its CSV file
    selected_for_compare,       \* sidebar multiselect: ordered list of eruptions
                                \* (selected_eruptions in src/app.py)
    selected_compare_stations,  \* sidebar multiselect (Dashboard): list of stations
                                \* (selected_stations in src/app.py)
    spec_e,                     \* selectbox "spec_e": eruption of the spectrogram
    spec_s,                     \* selectbox "spec_s": station of the spectrogram
    cache,                      \* st.cache_data store of load_aligned_selected
    df_compare,                 \* the combined table of the current run
    messages,                   \* st.warning / st.error elements shown in this run
    heatmap,                    \* spectrogram heatmap payload of this run
    latest_rsam,                \* input of the RSAM classifier
    level,                      \* tier chosen by the RSAM classifier
    max_std,                    \* input of the amplitude-std classifier
    risk_text,                  \* tier chosen by the amplitude-std classifier
    runs,                       \* number of script runs started in the session
    session_state,              \* st.session_state: widget key -> value, set keys only
    markers,                    \* stations drawn on the map in this run
    pc                          \* position of the script

vars == <<app, fstat, files, selected_for_compare, selected_compare_stations,
          spec_e, spec_s, cache, df_compare, messages, heatmap,
          latest_rsam, level, max_std, risk_text, runs, session_state,
          markers, pc>>

-----------------------------------------------------------------------------
(* Bounds of the model *)

\* at most this many raw rows, over all files, besides the dense runs
MaxRows == 2
\* at most this many script runs in one session
MaxRuns == 3
\* scalars this close to a threshold are classified
Delta == 1

-----------------------------------------------------------------------------
(* Fixed reference tables *)

E2015 == "24 Aug 2015 - 16:50 UTC"
E2016 == "11 Sep 2016 - 04:05 UTC"
E2022 == "19 Sep 2022 - 06:23 UTC"

\* The eruption table: identifier -> eruption instant, in minutes since the
\* epoch.  Three of the entries are kept: one instant on a 10-minute
\* boundary and the two that are not (04:05 and 06:23).
eruptions ==
    (E2015 :> [time |-> 24007250]) @@
    (E2016 :> [time |-> 24559445]) @@
    (E2022 :> [time |-> 27726143])

EruptionNames == <<E2015, E2016, E2022>>

Names == DOMAIN eruptions

color_map ==
    (E2015 :> "#e6194B") @@ (E2016 :> "#f58231") @@ (E2022 :> "#4363d8")

Stations == {"BON", "DSM"}

\* What can be on disk for an eruption: a readable table, no file, or a file
\* that pd.read_csv / pd.to_datetime cannot turn into a table.
FileStates == {"ok", "missing", "corrupt"}

NaN == {}

PreloadHours == 82
PostHours == 24
TightHours == 80
ResampleMinutes == 10
SpecBeforeHours == 48
SpecAfterHours == 12
MinSamples == 100
nperseg == 360
noverlap == 300

Hours(h) == 60 * h

-----------------------------------------------------------------------------
(* Raw tables *)

\* One raw row: a station's sample of one minute.
Row(t, s, a) == [time_min |-> t, station |-> s, amplitude_mean |-> a]

\* Candidate rows of an eruption's file, by offset from the eruption instant:
\* between -82 h and -80 h, exactly -80 h (two stations) and a row without a
\* value, two bins later or (second eruption) in the bin of the -80 h rows;
\* for the first eruption also exactly +24 h and after +24 h.
RowPool(name) ==
    LET t0 == eruptions[name].time
    IN  { Row(t0 - 4900, "BON", {20}),
          Row(t0 - 4800, "BON", {30}),
          Row(t0 - 4800, "DSM", {50}),
          Row(t0 - (IF name = E2016 THEN 4796 ELSE 4779), "DSM", NaN) }
        \cup (IF name = E2015
              THEN { Row(t0 + 1440, "DSM", {90}), Row(t0 + 1441, "BON", {5}) }
              ELSE {})

\* n consecutive per-minute rows of one station starting at offset "from".
DenseRun(name, s, from, n) ==
    { Row(eruptions[name].time + from + i, s, {100 + (i % 7)}) : i \in 0..(n - 1) }

-----------------------------------------------------------------------------
(* Pure helpers *)

SeqsNoDup(S) ==
    { q \in UNION { [1..n -> S] : n \in 0..Cardinality(S) } :
        \A i, j \in DOMAIN q : i # j => q[i] # q[j] }

Range(q) == { q[i] : i \in DOMAIN q }

RECURSIVE SumOver(_, _)
\* Sum of amplitude_mean over the rows of S whose value is in V.
SumOver(V, S) ==
    IF V = {} THEN 0
    ELSE LET v == CHOOSE x \in V : TRUE
         IN  v * Cardinality({ r \in S : r.amplitude_mean = {v} })
                 + SumOver(V \ {v}, S)

\* Sum of the values of amplitude_mean over the rows of S.
SumAmp(S) == SumOver(UNION { r.amplitude_mean : r \in S }, S)

\* DataFrame.mean(numeric_only=True) of one bucket: NaN values are skipped,
\* a bucket with no value is NaN.  The mean is kept as the pair sum / n.
MeanNaNAsZero(bucket) ==
    IF bucket = {} THEN NaN
    ELSE {[sum |-> SumAmp(bucket), n |-> Cardinality(bucket)]}

Mean(bucket) ==
    LET valid == { r \in bucket : r.amplitude_mean # NaN }
    IN  IF valid = {} THEN NaN
        ELSE {[sum |-> SumAmp(valid), n |-> Cardinality(valid)]}

\* Earliest timestamp of a non-empty table.
MinTime(df) ==
    LET times == { r.time_min : r \in df }
    IN  CHOOSE t \in times : \A u \in times : t <= u

\* resampled["hours_to_eruption"]:
\* (time_min - info["time"]).dt.total_seconds() / 3600, in minutes.
HoursToEruptionFlipped(t, name) == eruptions[name].time - t

HoursToEruptionMid(t, name) == (t + (ResampleMinutes \div 2)) - eruptions[name].time

HoursToEruption(t, name) == t - eruptions[name].time

\* resampled["color"] = color_map[name]
ColorOfFirst(name) == color_map[EruptionNames[1]]

ColorOf(name) == color_map[name]

\* Left edge of the 10-minute bin of t (bins are anchored at midnight).
BinStart(t) == t - (t % ResampleMinutes)

\* df.set_index("time_min").resample("10min").mean(numeric_only=True)
\*   .reset_index(), then hours_to_eruption, eruption and color are set:
\* one row per bin from the first to the last occupied bin, empty bins
\* included, labelled by the bin's left edge.  "rows" records the raw rows
\* the bin aggregates.
Resample(df, name) ==
    IF df = {} THEN <<>>
    ELSE LET bins  == { BinStart(r.time_min) : r \in df }
             first == CHOOSE b \in bins : \A c \in bins : b <= c
             last  == CHOOSE b \in bins : \A c \in bins : b >= c
             n     == ((last - first) \div ResampleMinutes) + 1
         IN  [ k \in 1..n |->
                 LET lab    == first + ResampleMinutes * (k - 1)
                     bucket == { r \in df : BinStart(r.time_min) = lab }
                 IN  [ time_min          |-> lab,
                       hours_to_eruption |-> HoursToEruption(lab, name),
                       amplitude_mean    |-> Mean(bucket),
                       eruption          |-> name,
                       color             |-> ColorOf(name),
                       rows              |-> bucket ] ]

RECURSIVE Concat(_)
\* pd.concat(frames, ignore_index=True)
Concat(frames) ==
    IF frames = <<>> THEN <<>> ELSE Head(frames) \o Concat(Tail(frames))

-----------------------------------------------------------------------------
(* load_aligned_selected *)

Warning(text, name) == [kind |-> "warning", text |-> text, name |-> name]

\* st.error(f"Error loading {name}: {e}")
ErrorLoading(name) == [kind |-> "error", text |-> "Error loading", name |-> name]

\* Rows with lo <= time_min <= hi.
InWindow(df, lo, hi) == { r \in df : r.time_min >= lo /\ r.time_min <= hi }

\* df_temp["hours_to_eruption"] of the raw rows, then the rows whose
\* hours_to_eruption lies in [-80, 24].
TightWindow(df, name) ==
    { r \in df : /\ r.time_min - eruptions[name].time >= -Hours(TightHours)
                 /\ r.time_min - eruptions[name].time <= Hours(PostHours) }

\* pd.read_csv, pd.to_datetime(utc=True) and preprocess_data of an existing
\* file: the rows of the file (preprocess_data adds derived feature columns).
preprocess_data(df) == df

\* The accumulator of the loop: the frames appended so far, the messages
\* shown so far, and how control leaves the iteration ("loop": go on with
\* the next eruption, "raise": an exception leaves the function).
Acc0 == [frames |-> <<>>, msgs |-> <<>>, ctl |-> "loop"]

\* File missing: a warning, then "continue".
MissingFileReturns(acc, name) ==
    [acc EXCEPT !.msgs = Append(@, Warning("File not found", name)),
                !.ctl = "return"]

MissingFile(acc, name) ==
    [acc EXCEPT !.msgs = Append(@, Warning("File not found", name))]

\* all_frames.append(resampled)
AppendFrameFirst(frames, resampled) == <<resampled>> \o frames

AppendFrame(frames, resampled) == Append(frames, resampled)

\* except Exception as e: st.error(...); the loop goes on.
ExceptHandler(acc, name) == [acc EXCEPT !.msgs = Append(@, ErrorLoading(name))]

\* Body of the loop of dashboard_v2.
loop_body_v2(acc, name) ==
    IF fstat[name] = "missing" THEN MissingFile(acc, name)
    ELSE IF fstat[name] = "corrupt" THEN ExceptHandler(acc, name)
    ELSE LET t0      == eruptions[name].time
             df_temp == preprocess_data(files[name])
             window  == InWindow(df_temp, t0 - Hours(PreloadHours),
                                 t0 + Hours(PostHours))
         IN  IF window = {}
             THEN [acc EXCEPT !.msgs =
                       Append(@, Warning("No data in window", name))]
             ELSE [acc EXCEPT !.frames =
                       AppendFrame(@, Resample(TightWindow(window, name), name))]

\* load_eruption_file(name) of the Dashboard revision (module data_loader):
\* the parsed and preprocessed table of the eruption's file; reading a file
\* that is not there, or that cannot be parsed, raises.
load_eruption_file(name) ==
    [raised |-> fstat[name] # "ok", df |-> preprocess_data(files[name])]

\* df[df["station"].isin(selected_stations)]
StationFilterNone(df, selected_stations) == df

StationFilterEmptyMeansAll(df, selected_stations) ==
    IF selected_stations = <<>> THEN df
    ELSE { r \in df : r.station \in Range(selected_stations) }

StationFilter(df, selected_stations) ==
    { r \in df : r.station \in Range(selected_stations) }

\* Body of the loop of the Dashboard revision: no try/except, no message.
loop_body_Dashboard(acc, name, selected_stations) ==
    LET loaded == load_eruption_file(name)
    IN  IF loaded.raised THEN [acc EXCEPT !.ctl = "raise"]
        ELSE LET t0     == eruptions[name].time
                 df     == StationFilter(loaded.df, selected_stations)
                 window == InWindow(df, t0 - Hours(PreloadHours),
                                    t0 + Hours(PostHours))
             IN  IF window = {} THEN acc
                 ELSE [acc EXCEPT !.frames =
                           AppendFrame(@, Resample(TightWindow(window, name), name))]

loop_body(a, acc, name, selected_stations) ==
    IF a = "dashboard_v2" THEN loop_body_v2(acc, name)
    ELSE loop_body_Dashboard(acc, name, selected_stations)

RECURSIVE load_loop(_, _, _, _)
\* for name in selected_list: ...
load_loop(a, acc, selected_list, selected_stations) ==
    IF selected_list = <<>> \/ acc.ctl # "loop" THEN acc
    ELSE load_loop(a, loop_body(a, acc, Head(selected_list), selected_stations),
                   Tail(selected_list), selected_stations)

\* The function as written: the combined table, the messages shown while it
\* ran, and whether an exception left it.
load_aligned_selected(a, selected_list, selected_stations) ==
    LET acc == load_loop(a, Acc0, selected_list, selected_stations)
    IN  [ df     |-> IF acc.ctl = "raise" THEN <<>> ELSE Concat(acc.frames),
          msgs   |-> acc.msgs,
          raised |-> acc.ctl = "raise" ]

-----------------------------------------------------------------------------
(* Inputs *)

RECURSIVE SubsetsUpTo(_, _)
SubsetsUpTo(S, k) ==
    IF k = 0 THEN {{}}
    ELSE LET P == SubsetsUpTo(S, k - 1)
         IN  P \cup { p \cup {x} : p \in P, x \in S }

\* The candidate rows of the files a call with this list reads: a file that
\* is missing, or that the call never opens, holds none.
ReadRows(selected_list) ==
    UNION { RowPool(n) : n \in { m \in Range(selected_list) : fstat[m] = "ok" } }

Apps == {"dashboard_v2", "Dashboard"}

\* The station list of the call: the Dashboard revision alone takes one.
StationLists(a) == IF a = "Dashboard" THEN SeqsNoDup(Stations) ELSE {<<>>}

NoWidgets ==
    /\ spec_e = E2015
    /\ spec_s = "BON"
    /\ cache = {}
    /\ heatmap = <<>>
    /\ runs = 0
    /\ session_state = <<>>
    /\ markers = <<>>

NoRisk ==
    /\ latest_rsam = NaN
    /\ level = "none"
    /\ max_std = NaN
    /\ risk_text = "none"

-----------------------------------------------------------------------------
(* Specification of the function alone: Init draws its inputs (the files on *)
(* disk, the eruption list, the station list), the action calls it once.   *)
(* Only the files of listed eruptions vary: the call opens no other.       *)

InitAlign ==
    /\ app \in Apps
    /\ selected_for_compare \in SeqsNoDup(Names)
    /\ fstat \in { f \in [Names -> FileStates] :
                     \A n \in Names \ Range(selected_for_compare) : f[n] = "ok" }
    /\ \E D \in SubsetsUpTo(ReadRows(selected_for_compare), MaxRows) :
           files = [n \in Names |-> D \cap RowPool(n)]
    /\ selected_compare_stations \in StationLists(app)
    /\ df_compare = <<>>
    /\ messages = <<>>
    /\ pc = "call"
    /\ NoWidgets
    /\ NoRisk

CallLoadAligned ==
    /\ pc = "call"
    /\ LET res == load_aligned_selected(app, selected_for_compare,
                                        selected_compare_stations)
       IN  /\ df_compare' = res.df
           /\ messages' = res.msgs
           /\ pc' = IF res.raised THEN "raised" ELSE "returned"
    /\ UNCHANGED <<app, fstat, files, selected_for_compare,
                   selected_compare_stations, spec_e, spec_s, cache, heatmap,
                   latest_rsam, level, max_std, risk_text, runs,
                   session_state, markers>>

NextAlign == CallLoadAligned

SpecAlign == InitAlign /\ [][NextAlign]_vars

-----------------------------------------------------------------------------
(* Claims about load_aligned_selected, checked under SpecAlign *)

Returned == pc = "returned"

RowIds == DOMAIN df_compare

\* The table one eruption alone contributes.
PerEruption(name) ==
    load_aligned_selected(app, <<name>>, selected_compare_stations).df

\* Position of an eruption in the input list.
IndexOf(name) ==
    CHOOSE i \in DOMAIN selected_for_compare : selected_for_compare[i] = name

\* The list without its i-th element.
Without(q, i) == SubSeq(q, 1, i - 1) \o SubSeq(q, i + 1, Len(q))

RECURSIVE SumLen(_)
SumLen(q) == IF q = <<>> THEN 0 ELSE Len(PerEruption(Head(q))) + SumLen(Tail(q))

\* C1: every row of the table returned by load_aligned_selected has
\* hours_to_eruption within [-80, +24], also the first 10-minute bucket of an
\* eruption whose instant is not on a 10-minute boundary.
C1_HoursWithinWindow ==
    Returned =>
        \A i \in RowIds :
            /\ df_compare[i].hours_to_eruption >= -Hours(TightHours)
            /\ df_compare[i].hours_to_eruption <= Hours(PostHours)

\* C2: every row of the combined table is tagged with an eruption of the
\* input list, and aggregates only raw rows of that eruption's file whose
\* station is in the input station set (the Dashboard revision takes one).
C2_OnlySelected ==
    Returned =>
        \A i \in RowIds :
            /\ df_compare[i].eruption \in Range(selected_for_compare)
            /\ df_compare[i].rows \subseteq files[df_compare[i].eruption]
            /\ app = "Dashboard" =>
                   \A r \in df_compare[i].rows :
                       r.station \in Range(selected_compare_stations)

\* A selected eruption has, inside the tight window, a row of a station that
\* is not selected and a row of one that is, and the table was returned.
C2_Witness ==
    /\ Returned
    /\ app = "Dashboard"
    /\ df_compare # <<>>
    /\ \E n \in Range(selected_for_compare) :
           /\ \E r \in TightWindow(files[n], n) :
                  r.station \notin Range(selected_compare_stations)
           /\ \E r \in TightWindow(files[n], n) :
                  r.station \in Range(selected_compare_stations)

\* C3: in dashboard_v2, for every eruption m of the list whose file is
\* missing, the table returned for the list equals the table returned for
\* the list with m removed, and a warning was shown for m.
C3_MissingFileSkipped ==
    (Returned /\ app = "dashboard_v2") =>
        \A i \in DOMAIN selected_for_compare :
            fstat[selected_for_compare[i]] = "missing" =>
                /\ df_compare =
                       load_aligned_selected(app, Without(selected_for_compare, i),
                                             selected_compare_stations).df
                /\ Warning("File not found", selected_for_compare[i])
                       \in Range(messages)

\* The missing eruption stands between two eruptions that both have rows in
\* the table.
C3_Witness ==
    /\ Returned
    /\ app = "dashboard_v2"
    /\ Len(selected_for_compare) = 3
    /\ fstat[selected_for_compare[2]] = "missing"
    /\ \E i, j \in RowIds :
           /\ df_compare[i].eruption = selected_for_compare[1]
           /\ df_compare[j].eruption = selected_for_compare[3]

\* C9: the combined table is the concatenation, in input-list order, of the
\* per-eruption tables: the row count is the sum of the per-eruption counts,
\* rows of an earlier-listed eruption precede rows of a later-listed one,
\* each segment is the per-eruption table in its own order, and the table is
\* empty when no eruption produced rows.
C9_Concatenation ==
    Returned =>
        LET per == [n \in Range(selected_for_compare) |-> PerEruption(n)]
            idx == [n \in Range(selected_for_compare) |-> IndexOf(n)]
        IN  /\ Len(df_compare) = SumLen(selected_for_compare)
            /\ \A i \in RowIds :
                   (i + 1) \in RowIds =>
                       idx[df_compare[i].eruption]
                           <= idx[df_compare[i + 1].eruption]
            /\ \A n \in Range(selected_for_compare) :
                   LET OfN(row) == row.eruption = n
                   IN  SelectSeq(df_compare, OfN) = per[n]
            /\ (\A n \in Range(selected_for_compare) : per[n] = <<>>)
                   => df_compare = <<>>

\* Two listed eruptions both contribute rows.
C9_Witness ==
    /\ Returned
    /\ \E i, j \in RowIds : df_compare[i].eruption # df_compare[j].eruption

\* C10: within one eruption's segment, consecutive rows have strictly
\* increasing timestamps that differ by a positive multiple of 10 minutes,
\* and hours_to_eruption does not decrease.
C10_SegmentOrder ==
    Returned =>
        \A i \in RowIds :
            ((i + 1) \in RowIds
                /\ df_compare[i].eruption = df_compare[i + 1].eruption) =>
                /\ df_compare[i + 1].time_min > df_compare[i].time_min
                /\ (df_compare[i + 1].time_min - df_compare[i].time_min) % 10 = 0
                /\ df_compare[i + 1].hours_to_eruption
                       >= df_compare[i].hours_to_eruption

\* A segment of at least three rows, one of them an empty bin.
C10_Witness ==
    /\ Returned
    /\ \E i \in RowIds :
           /\ (i + 2) \in RowIds
           /\ df_compare[i].eruption = df_compare[i + 2].eruption
           /\ df_compare[i + 1].rows = {}

\* The call is over, by a return or by an exception.
CallOver == pc \in {"returned", "raised"}

\* Loading this eruption raises an exception inside the loop: its file cannot
\* be parsed, or (Dashboard revision, which has no existence check) is not
\* there.
LoadRaises(name) ==
    \/ fstat[name] = "corrupt"
    \/ app = "Dashboard" /\ fstat[name] = "missing"

\* C11: an exception raised while loading one eruption of the list is caught
\* for that eruption only: the call returns, an error message is shown for
\* that eruption, and the table is the one the list without that eruption
\* gives (earlier rows kept, later eruptions processed).
C11_ExceptionCaught ==
    CallOver =>
        \A i \in DOMAIN selected_for_compare :
            LoadRaises(selected_for_compare[i]) =>
                /\ Returned
                /\ ErrorLoading(selected_for_compare[i]) \in Range(messages)
                /\ df_compare =
                       load_aligned_selected(app, Without(selected_for_compare, i),
                                             selected_compare_stations).df

\* The same for dashboard_v2 alone, whose loop body is a try block.
C11_CaughtInV2 == app = "dashboard_v2" => C11_ExceptionCaught

\* dashboard_v2: the unreadable file stands between two eruptions that both
\* have rows in the returned table.
C11_CaughtInV2_Witness ==
    /\ Returned
    /\ app = "dashboard_v2"
    /\ Len(selected_for_compare) = 3
    /\ fstat[selected_for_compare[2]] = "corrupt"
    /\ \E i, j \in RowIds :
           /\ df_compare[i].eruption = selected_for_compare[1]
           /\ df_compare[j].eruption = selected_for_compare[3]

\* C15 as stated: hours_to_eruption of a resampled row is the signed time
\* from the eruption instant to the midpoint of the row's 10-minute bucket.
C15_AsStated ==
    Returned =>
        \A i \in RowIds :
            df_compare[i].hours_to_eruption =
                (df_compare[i].time_min + (ResampleMinutes \div 2))
                    - eruptions[df_compare[i].eruption].time

\* C15, amended: hours_to_eruption of a resampled row is the signed time
\* from the eruption instant to the start of the row's 10-minute bucket: the
\* row's timestamp is a multiple of 10 minutes, the raw rows it aggregates
\* lie in the 10 minutes from it on, and hours_to_eruption is that timestamp
\* minus the eruption instant.
C15_BucketStart ==
    Returned =>
        \A i \in RowIds :
            LET row == df_compare[i]
            IN  /\ row.time_min % ResampleMinutes = 0
                /\ \A r \in row.rows :
                       /\ r.time_min >= row.time_min
                       /\ r.time_min < row.time_min + ResampleMinutes
                /\ row.hours_to_eruption =
                       row.time_min - eruptions[row.eruption].time

\* A returned row aggregates a raw row that is not at the start of the
\* bucket.
C15_Witness ==
    /\ Returned
    /\ \E i \in RowIds : \E r \in df_compare[i].rows :
           r.time_min > df_compare[i].time_min

RECURSIVE ValueSum(_)
\* The values of the rows of S that have one, added up row by row.
ValueSum(S) ==
    IF S = {} THEN 0
    ELSE LET r == CHOOSE x \in S : TRUE
         IN  (IF r.amplitude_mean = NaN THEN 0
              ELSE CHOOSE v \in r.amplitude_mean : TRUE)
                 + ValueSum(S \ {r})

\* C16: the resampled value of a bucket is the sum of the values of its
\* rows that have one, divided by the number of those rows; a row without a
\* value adds nothing to the sum and nothing to the divisor, and a bucket
\* with no value at all has none.
C16_MeanSkipsMissing ==
    Returned =>
        \A i \in RowIds :
            LET row   == df_compare[i]
                count == Cardinality({ r \in row.rows : r.amplitude_mean # NaN })
            IN  IF count = 0 THEN row.amplitude_mean = NaN
                ELSE row.amplitude_mean =
                         {[sum |-> ValueSum(row.rows), n |-> count]}

\* A bucket of the returned table holds a row with a value and a row
\* without one.
C16_Witness ==
    /\ Returned
    /\ \E i \in RowIds :
           /\ \E r \in df_compare[i].rows : r.amplitude_mean = NaN
           /\ \E r \in df_compare[i].rows : r.amplitude_mean # NaN

\* C17: in the Dashboard revision the rows are filtered to the station list
\* before they are resampled: a row of the table aggregates exactly the raw
\* rows of listed stations that fall in its bucket and in [-80 h, +24 h],
\* each eruption's segment starts and ends with a bucket that holds such a
\* row, and with an empty station list the table is empty.
C17_StationsFirst ==
    (Returned /\ app = "Dashboard") =>
        /\ \A i \in RowIds :
               LET row == df_compare[i]
               IN  /\ row.rows =
                          { r \in TightWindow(files[row.eruption], row.eruption) :
                              /\ r.station \in Range(selected_compare_stations)
                              /\ BinStart(r.time_min) = row.time_min }
                   /\ ( \/ i = 1
                        \/ i = Len(df_compare)
                        \/ df_compare[i - 1].eruption # row.eruption
                        \/ df_compare[i + 1].eruption # row.eruption )
                          => row.rows # {}
        /\ selected_compare_stations = <<>> => df_compare = <<>>

\* The station list is empty and a listed eruption has rows in the window.
C17_Witness ==
    /\ Returned
    /\ app = "Dashboard"
    /\ selected_compare_stations = <<>>
    /\ \E n \in Range(selected_for_compare) : TightWindow(files[n], n) # {}

\* A listed eruption has, in one bucket, a row of a listed station and a
\* row of a station that is not listed.
C17_MixedBucket ==
    /\ Returned
    /\ app = "Dashboard"
    /\ \E i \in RowIds :
           /\ df_compare[i].rows # {}
           /\ \E r \in TightWindow(files[df_compare[i].eruption],
                                    df_compare[i].eruption) :
                  /\ BinStart(r.time_min) = df_compare[i].time_min
                  /\ r \notin df_compare[i].rows

\* The rows of a readable file within [instant - 82 h, instant + 24 h].
WideWindow(name) ==
    InWindow(files[name], eruptions[name].time - Hours(PreloadHours),
             eruptions[name].time + Hours(PostHours))

\* C13: an eruption of the list whose file has no row within
\* [instant - 82 h, instant + 24 h] contributes no row to the returned table,
\* a warning is shown for it, and the other eruptions are processed as if it
\* were not in the list.
C13_EmptyWindowWarned ==
    Returned =>
        \A i \in DOMAIN selected_for_compare :
            LET name == selected_for_compare[i]
            IN  (fstat[name] = "ok" /\ WideWindow(name) = {}) =>
                    /\ \A k \in RowIds : df_compare[k].eruption # name
                    /\ Warning("No data in window", name) \in Range(messages)
                    /\ df_compare =
                           load_aligned_selected(
                               app, Without(selected_for_compare, i),
                               selected_compare_stations).df

\* The same for dashboard_v2 alone, which shows the warning.
C13_WarnedInV2 == app = "dashboard_v2" => C13_EmptyWindowWarned

\* dashboard_v2: the first listed eruption has a row, but none in the
\* window, and a later one has rows in the table.
C13_WarnedInV2_Witness ==
    /\ Returned
    /\ app = "dashboard_v2"
    /\ Len(selected_for_compare) >= 2
    /\ files[selected_for_compare[1]] # {}
    /\ WideWindow(selected_for_compare[1]) = {}
    /\ df_compare # <<>>

\* C20: when load_aligned_selected has returned, every eruption of the list
\* that has no row in the table has had a warning or an error message shown
\* for it.
C20_AbsentEruptionReported ==
    Returned =>
        \A n \in Range(selected_for_compare) :
            (\A i \in RowIds : df_compare[i].eruption # n) =>
                \E m \in Range(messages) : m.name = n

\* The case the claim names: a readable file whose only rows lie between
\* 82 h and 80 h before the eruption instant.
C20_PreloadOnlyReported ==
    (Returned /\ app = "dashboard_v2") =>
        \A n \in Range(selected_for_compare) :
            ( /\ fstat[n] = "ok"
              /\ WideWindow(n) # {}
              /\ TightWindow(files[n], n) = {} ) =>
                \E m \in Range(messages) : m.name = n

-----------------------------------------------------------------------------
(* Risk-level classifiers *)

\* x > t as Python evaluates it: false when x is NaN.
Gt(x, t) == \E v \in x : v > t

Ge(x, t) == \E v \in x : v >= t

\* The tiers, least severe first, as the two revisions label them.
Levels(a) ==
    IF a = "dashboard_v2"
    THEN <<"NORMAL", "ELEVATED (<48h)", "HIGH (<12h)", "IMMINENT (<1h)", "ERUPTION">>
    ELSE <<"NORMAL", "MOYEN (<48h)", "ELEVE (<12h)", "IMMINENT (<1h)", "ERUPTION">>

\* The tiers of the amplitude-std classifier of src/app.py.
RiskTexts ==
    <<"Pas de risque", "Risque < 24h", "Risque < 12h", "Risque < 1h",
      "Eruption en cours">>

RsamTierTypo(x) ==
    IF Gt(x, 5000) THEN 5
    ELSE IF Gt(x, 3000) THEN 4
    ELSE IF Gt(x, 2500) THEN 3
    ELSE IF Gt(x, 800) THEN 2
    ELSE 1

RsamTierInclusive(x) ==
    IF Ge(x, 5000) THEN 5
    ELSE IF Ge(x, 3000) THEN 4
    ELSE IF Ge(x, 1500) THEN 3
    ELSE IF Ge(x, 800) THEN 2
    ELSE 1

RsamTierReversed(x) ==
    IF Gt(x, 5000) THEN 5
    ELSE IF Gt(x, 3000) THEN 4
    ELSE IF ~Gt(x, 1500) THEN 3
    ELSE IF Gt(x, 800) THEN 2
    ELSE 1

\* if latest_rsam > 5000 ... elif > 3000 ... elif > 1500 ... elif > 800 ... else
RsamTier(x) ==
    IF Gt(x, 5000) THEN 5
    ELSE IF Gt(x, 3000) THEN 4
    ELSE IF Gt(x, 1500) THEN 3
    ELSE IF Gt(x, 800) THEN 2
    ELSE 1

\* if max_std > 100_000 ... elif > 30_000 ... elif > 10_000 ... elif > 3_000
StdTier(x) ==
    IF Gt(x, 100000) THEN 5
    ELSE IF Gt(x, 30000) THEN 4
    ELSE IF Gt(x, 10000) THEN 3
    ELSE IF Gt(x, 3000) THEN 2
    ELSE 1

\* Position of a label in a list of labels.
Rank(labels, l) == CHOOSE k \in DOMAIN labels : labels[k] = l

Near(S) == { {t + d} : t \in S, d \in (0 - Delta)..Delta }

\* Scalars classified: the thresholds and the sample inputs 0, 2000, 6000,
\* their neighbours, and NaN.
RsamInputs == Near({0, 800, 1500, 2000, 3000, 5000, 6000}) \cup {NaN}

StdInputs == Near({0, 3000, 10000, 30000, 100000}) \cup {NaN}

-----------------------------------------------------------------------------
(* Specification of the classifiers alone: Init draws the scalars, each     *)
(* action classifies one of them.                                           *)

InitRisk ==
    /\ app \in Apps
    /\ latest_rsam \in RsamInputs
    /\ max_std \in StdInputs
    /\ level = "none"
    /\ risk_text = "none"
    /\ fstat = [n \in Names |-> "ok"]
    /\ files = [n \in Names |-> {}]
    /\ selected_for_compare = <<>>
    /\ selected_compare_stations = <<>>
    /\ df_compare = <<>>
    /\ messages = <<>>
    /\ pc = "risk"
    /\ NoWidgets

ClassifyRsam ==
    /\ pc = "risk"
    /\ level = "none"
    /\ level' = Levels(app)[RsamTier(latest_rsam)]
    /\ UNCHANGED <<app, fstat, files, selected_for_compare,
                   selected_compare_stations, spec_e, spec_s, cache,
                   df_compare, messages, heatmap, latest_rsam, max_std,
                   risk_text, runs, pc,
                   session_state, markers>>

ClassifyStd ==
    /\ pc = "risk"
    /\ risk_text = "none"
    /\ risk_text' = RiskTexts[StdTier(max_std)]
    /\ UNCHANGED <<app, fstat, files, selected_for_compare,
                   selected_compare_stations, spec_e, spec_s, cache,
                   df_compare, messages, heatmap, latest_rsam, level,
                   max_std, runs, pc,
                   session_state, markers>>

NextRisk == ClassifyRsam \/ ClassifyStd

SpecRisk == InitRisk /\ [][NextRisk]_vars

-----------------------------------------------------------------------------
(* Claims about the classifiers, checked under SpecRisk *)

RsamDone == pc = "risk" /\ level # "none"

StdDone == pc = "risk" /\ risk_text # "none"

\* Tier numbers: 1 NORMAL, 2 ELEVATED, 3 HIGH, 4 IMMINENT, 5 ERUPTION.
LevelRank == Rank(Levels(app), level)

RiskRank == Rank(RiskTexts, risk_text)

\* The thresholds the claims name, ascending.
RsamThresholds == <<800, 1500, 3000, 5000>>

StdThresholds == <<3000, 10000, 30000, 100000>>

\* C4 as stated: 2000 is in the ELEVATED tier, 6000 in the ERUPTION tier,
\* 0 and NaN in the NORMAL tier.
C4_AsStated ==
    RsamDone =>
        /\ latest_rsam = {2000} => LevelRank = 2
        /\ latest_rsam = {6000} => LevelRank = 5
        /\ latest_rsam \in {{0}, NaN} => LevelRank = 1

\* C4, amended: the RSAM classifier maps 2000 to the HIGH tier (above 1500),
\* 6000 to the ERUPTION tier, and 0 or NaN to the NORMAL tier.
C4_SampleInputs ==
    RsamDone =>
        /\ latest_rsam = {2000} => LevelRank = 3
        /\ latest_rsam = {6000} => LevelRank = 5
        /\ latest_rsam \in {{0}, NaN} => LevelRank = 1

C4_Witness == RsamDone /\ latest_rsam = {2000}

\* C5 as stated: an input equal to a threshold is classified in the higher
\* of the two tiers adjacent to that threshold.
C5_AsStated ==
    /\ RsamDone =>
           \A k \in DOMAIN RsamThresholds :
               latest_rsam = {RsamThresholds[k]} => LevelRank = k + 1
    /\ StdDone =>
           \A k \in DOMAIN StdThresholds :
               max_std = {StdThresholds[k]} => RiskRank = k + 1

\* C5, amended: an input equal to a threshold is classified in the lower of
\* the two tiers adjacent to that threshold (the comparisons are strict).
C5_TieGoesLower ==
    /\ RsamDone =>
           \A k \in DOMAIN RsamThresholds :
               latest_rsam = {RsamThresholds[k]} => LevelRank = k
    /\ StdDone =>
           \A k \in DOMAIN StdThresholds :
               max_std = {StdThresholds[k]} => RiskRank = k

C5_Witness ==
    /\ RsamDone
    /\ StdDone
    /\ latest_rsam = {3000}
    /\ max_std = {30000}

\* a <= b for two scalars that are numbers.
Le(a, b) == \E u \in a : \E v \in b : u <= v

\* C6: each classifier maps every input, NaN included, to one of the five
\* tiers, and for inputs a <= b the tier of a is not above the tier of b.
C6_TotalMonotone ==
    /\ RsamDone =>
           /\ level \in Range(Levels(app))
           /\ \A y \in RsamInputs :
                  /\ Le(latest_rsam, y) => LevelRank <= RsamTier(y)
                  /\ Le(y, latest_rsam) => RsamTier(y) <= LevelRank
    /\ StdDone =>
           /\ risk_text \in Range(RiskTexts)
           /\ \A y \in StdInputs :
                  /\ Le(max_std, y) => RiskRank <= StdTier(y)
                  /\ Le(y, max_std) => StdTier(y) <= RiskRank

\* Both classifiers have run, on inputs of a middle tier.
C6_Witness ==
    /\ RsamDone
    /\ StdDone
    /\ LevelRank = 3
    /\ RiskRank = 4

-----------------------------------------------------------------------------
(* Memoization: @st.cache_data *)

\* The key of a call: the hash of its arguments, lists hashed in order.
CacheKeyUnordered(a, selected_list, selected_stations) ==
    <<Range(selected_list), Range(selected_stations)>>

CacheKey(a, selected_list, selected_stations) ==
    IF a = "dashboard_v2" THEN <<selected_list>>
    ELSE <<selected_list, selected_stations>>

Cached(key) == { e \in cache : e.key = key }

-----------------------------------------------------------------------------
(* Spectrogram section of dashboard_v2 *)

Error(text) == [kind |-> "error", text |-> text, name |-> ""]

Success(text) == [kind |-> "success", text |-> text, name |-> ""]

NotEnoughData == Error("Not enough data points for spectrogram")

StationsOf(df) == { r.station : r \in df }

\* Stations in the order groupby sorts them.
StationOrder == <<"BON", "DSM">>

\* df_raw.groupby("station")["amplitude_mean"].mean().idxmax(): the station
\* of the highest mean, the first one in sorted order among equals.
BestStation(df) ==
    LET pos(s)   == CHOOSE k \in DOMAIN StationOrder : StationOrder[k] = s
        mean(s)  == Mean({ r \in df : r.station = s })
        above(s, u) ==
            \/ mean(s) # NaN /\ mean(u) = NaN
            \/ \E x \in mean(s) : \E y \in mean(u) :
                   \/ x.sum * y.n > y.sum * x.n
                   \/ x.sum * y.n = y.sum * x.n /\ pos(s) < pos(u)
            \/ mean(s) = NaN /\ mean(u) = NaN /\ pos(s) < pos(u)
    IN  CHOOSE s \in StationsOf(df) :
            \A u \in StationsOf(df) \ {s} : above(s, u)

\* Rows of the selected station within [-48 h, +12 h] of the eruption.
SpecWindow(df_raw, name, station) ==
    { r \in df_raw :
        /\ r.station = station
        /\ r.time_min >= eruptions[name].time - Hours(SpecBeforeHours)
        /\ r.time_min <= eruptions[name].time + Hours(SpecAfterHours) }

\* fs = 1 / 60: one sample every 60 seconds.
SamplePeriod == 60

\* The array t of scipy_signal.spectrogram: the centre of a segment, in
\* seconds from the first sample, (start + nperseg / 2) / fs.
SegmentTime(start, len) == SamplePeriod * start + (SamplePeriod \div 2) * len

\* t_spec_hours = t / 60 + t_hours.iloc[0], in minutes like every
\* hours-from-eruption value here: t / 60 hours are t minutes.
t_spec_hours(t, t_hours0) == (Hours(1) * t) \div 60 + t_hours0

\* scipy_signal.spectrogram(sig, nperseg=360, noverlap=300) on n samples and
\* the heatmap drawn from it: a segment longer than the signal is cut to the
\* signal's length, and an overlap that is not below the segment length
\* raises ValueError.  A column is recorded by the segment it comes from
\* and by the x-coordinate it is drawn at.
spectrogram(df, name) ==
    LET n     == Cardinality(df)
        nseg  == IF nperseg > n THEN n ELSE nperseg
        step  == nseg - noverlap
        first == MinTime(df) - eruptions[name].time
    IN  IF noverlap >= nseg
        THEN [msgs |-> <<>>, heatmap |-> <<>>, raised |-> TRUE]
        ELSE [msgs |-> <<Success("REAL VOLCANIC TREMOR DETECTED!")>>,
              heatmap |->
                <<[ first |-> first,
                    cols  |-> [ k \in 1..((n - noverlap) \div step) |->
                                  [start |-> (k - 1) * step, len |-> nseg,
                                   x |-> t_spec_hours(
                                             SegmentTime((k - 1) * step, nseg),
                                             first)] ] ]>>,
              raised |-> FALSE]

spectrogram_section_no_else(df, name) ==
    IF Cardinality(df) < MinSamples
    THEN LET sp == spectrogram(df, name)
         IN  [sp EXCEPT !.msgs = <<NotEnoughData>> \o @]
    ELSE spectrogram(df, name)

\* if len(df) < 100: st.error(...) else: spectrogram and heatmap
spectrogram_section(df, name) ==
    IF Cardinality(df) < MinSamples
    THEN [msgs |-> <<NotEnoughData>>, heatmap |-> <<>>, raised |-> FALSE]
    ELSE spectrogram(df, name)

-----------------------------------------------------------------------------
(* The session: one run of the script per interaction *)

\* Lengths of the run of DSM rows in the files of a session.
DenseLens == {99, 100}

\* The rows of a file of the session: two rows of BON and a run of len
\* consecutive minutes of DSM, from 48 h before the eruption on.
SessionRows(name, len) ==
    { Row(eruptions[name].time - 2880, "BON", {40}),
      Row(eruptions[name].time - 2875, "BON", {60}) }
        \cup DenseRun(name, "DSM", -2880, len)

\* Widget defaults: every eruption, every station; the first eruption for
\* the map and the spectrogram.
selected_main == EruptionNames[1]

\* The keys of station_coords: the stations that have coordinates.
station_coords ==
    { "BON", "DSM", "DSO", "ENO", "NSR", "NTR", "BLE", "CSS", "HIM", "PJR",
      "PCR", "PER", "TKR", "SNE", "FJS", "LCR", "PRA", "PHR", "RVA", "RVP",
      "CRA" }

\* A station of a data file that station_coords does not list.
Uncharted == "XYZ"

\* The stations of the files in sorted order.
MapStationOrder == StationOrder \o <<Uncharted>>

\* available_stations[:10]
DefaultCount == 10

\* st.session_state.get(key, default)
SessionGet(state, key, default) ==
    IF key \in DOMAIN state THEN state[key] ELSE default

\* sorted(temp_df["station"].unique())
available_stations(df) ==
    LET InFile(st) == st \in StationsOf(df) IN SelectSeq(MapStationOrder, InFile)

DefaultStations(available) ==
    SubSeq(available, 1, IF Len(available) < DefaultCount THEN Len(available)
                         ELSE DefaultCount)

\* A keyed widget: a key that is not set yet takes the default, a key that
\* is set keeps its value.
multiselect(state, key, default) ==
    IF key \in DOMAIN state THEN state
    ELSE [k \in DOMAIN state \cup {key} |->
            IF k = key THEN default ELSE state[k]]

\* for sta in selected_stations_map: a marker unless sta has no coordinates.
StationMarkersAll(selected_stations_map) == selected_stations_map

StationMarkers(selected_stations_map) ==
    LET HasCoords(st) == st \in station_coords
    IN  SelectSeq(selected_stations_map, HasCoords)

\* create_station_map(selected_stations_map, tiles, attr) of the Dashboard
\* revision (module mapping): the markers of the stations with coordinates.
create_station_map(selected_stations_map) == StationMarkers(selected_stations_map)

MapMarkers(a, selected_stations_map) ==
    IF a = "Dashboard" THEN create_station_map(selected_stations_map)
    ELSE StationMarkers(selected_stations_map)

Init ==
    /\ app \in Apps
    /\ fstat \in { f \in [Names -> FileStates] :
                     Cardinality({ n \in Names : f[n] # "ok" }) <= 1 }
    /\ \E len \in DenseLens :
           files = [n \in Names |->
                       IF fstat[n] = "ok" THEN SessionRows(n, len) ELSE {}]
    /\ selected_for_compare = EruptionNames
    /\ selected_compare_stations =
           IF app = "Dashboard" THEN StationOrder ELSE <<>>
    /\ spec_e = EruptionNames[1]
    /\ spec_s = IF files[EruptionNames[1]] = {} THEN StationOrder[1]
                ELSE BestStation(files[EruptionNames[1]])
    /\ cache = {}
    /\ df_compare = <<>>
    /\ messages = <<>>
    /\ heatmap = <<>>
    /\ session_state = <<>>
    /\ markers = <<>>
    /\ runs = 1
    /\ pc = "map"
    /\ NoRisk

\* A widget changed: the script runs again from the top.
Rerun ==
    /\ pc = "done"
    /\ runs < MaxRuns
    /\ runs' = runs + 1
    /\ df_compare' = <<>>
    /\ messages' = <<>>
    /\ heatmap' = <<>>
    /\ markers' = <<>>
    /\ pc' = "map"
    /\ UNCHANGED <<app, fstat, files, cache, latest_rsam, level, max_std,
                   risk_text>>

Toggle(q, x) ==
    IF x \in Range(q) THEN LET keep(y) == y # x IN SelectSeq(q, keep)
    ELSE Append(q, x)

\* The operator selects or unselects one eruption to compare.
ToggleEruption ==
    /\ Rerun
    /\ \E n \in Names : selected_for_compare' = Toggle(selected_for_compare, n)
    /\ UNCHANGED <<selected_compare_stations, spec_e, spec_s, session_state>>

\* The operator selects or unselects one station (Dashboard revision).
ToggleStation ==
    /\ Rerun
    /\ app = "Dashboard"
    /\ \E s \in Stations :
           selected_compare_stations' = Toggle(selected_compare_stations, s)
    /\ UNCHANGED <<selected_for_compare, spec_e, spec_s, session_state>>

\* The operator picks the eruption of the spectrogram (dashboard_v2).
SelectSpecEruption ==
    /\ Rerun
    /\ app = "dashboard_v2"
    /\ \E n \in Names \ {spec_e} : spec_e' = n
    /\ UNCHANGED <<selected_for_compare, selected_compare_stations, spec_s,
                   session_state>>

\* The operator picks the station of the spectrogram (dashboard_v2).
SelectSpecStation ==
    /\ Rerun
    /\ app = "dashboard_v2"
    /\ \E s \in StationsOf(files[spec_e]) \ {spec_s} : spec_s' = s
    /\ UNCHANGED <<selected_for_compare, selected_compare_stations, spec_e,
                   session_state>>

\* Map and map controls.  The map is drawn first, from the value
\* st.session_state holds for the station widget ([] when the key is not
\* set); the widget is created after it and, when its key is not set, stores
\* its default.  The file of the map's eruption is read outside any try
\* block.
MapSection ==
    /\ pc = "map"
    /\ IF fstat[selected_main] # "ok"
       THEN /\ pc' = "crashed_map"
            /\ UNCHANGED <<session_state, markers>>
       ELSE /\ markers' = MapMarkers(app, SessionGet(session_state,
                                                     "selected_stations_map", <<>>))
            /\ session_state' =
                   multiselect(session_state, "selected_stations_map",
                               DefaultStations(available_stations(files[selected_main])))
            /\ pc' = "load"
    /\ UNCHANGED <<app, fstat, files, selected_for_compare,
                   selected_compare_stations, spec_e, spec_s, cache,
                   df_compare, messages, heatmap, latest_rsam, level,
                   max_std, risk_text, runs>>

\* df_compare = load_aligned_selected(...), the key is in the cache: the
\* stored table is returned and the stored messages are shown again.
LoadAlignedHit ==
    /\ pc = "load"
    /\ \E e \in Cached(CacheKey(app, selected_for_compare,
                                selected_compare_stations)) :
           /\ df_compare' = e.value.df
           /\ messages' = messages \o e.value.msgs
    /\ pc' = "charts"
    /\ UNCHANGED <<app, fstat, files, selected_for_compare,
                   selected_compare_stations, spec_e, spec_s, cache, heatmap,
                   latest_rsam, level, max_std, risk_text, runs,
                   session_state, markers>>

\* df_compare = load_aligned_selected(...), the key is new: the function
\* runs, and its result is stored unless it raised.
LoadAlignedMiss ==
    /\ pc = "load"
    /\ LET key == CacheKey(app, selected_for_compare, selected_compare_stations)
           res == load_aligned_selected(app, selected_for_compare,
                                        selected_compare_stations)
       IN  /\ Cached(key) = {}
           /\ IF res.raised
              THEN /\ pc' = "crashed_load"
                   /\ UNCHANGED <<cache, df_compare, messages>>
              ELSE /\ pc' = "charts"
                   /\ cache' = cache \cup
                          {[key |-> key, value |-> [df |-> res.df, msgs |-> res.msgs]]}
                   /\ df_compare' = res.df
                   /\ messages' = messages \o res.msgs
    /\ UNCHANGED <<app, fstat, files, selected_for_compare,
                   selected_compare_stations, spec_e, spec_s, heatmap,
                   latest_rsam, level, max_std, risk_text, runs,
                   session_state, markers>>

\* if not df_compare.empty: the charts are drawn.
Charts ==
    /\ pc = "charts"
    /\ pc' = IF app = "dashboard_v2" THEN "spectrogram" ELSE "footer"
    /\ UNCHANGED <<app, fstat, files, selected_for_compare,
                   selected_compare_stations, spec_e, spec_s, cache,
                   df_compare, messages, heatmap, latest_rsam, level,
                   max_std, risk_text, runs,
                   session_state, markers>>

\* The spectrogram section: the raw file is read outside any try block, and
\* idxmax of an empty table raises.
Spectrogram ==
    /\ pc = "spectrogram"
    /\ IF fstat[spec_e] # "ok" \/ files[spec_e] = {}
       THEN /\ pc' = "crashed_spectrogram"
            /\ UNCHANGED <<messages, heatmap>>
       ELSE LET df_raw == preprocess_data(files[spec_e])
                res == spectrogram_section(SpecWindow(df_raw, spec_e, spec_s),
                                           spec_e)
            IN  /\ messages' = messages \o res.msgs
                /\ heatmap' = res.heatmap
                /\ pc' = IF res.raised THEN "crashed_spectrogram" ELSE "footer"
    /\ UNCHANGED <<app, fstat, files, selected_for_compare,
                   selected_compare_stations, spec_e, spec_s, cache,
                   df_compare, latest_rsam, level, max_std, risk_text, runs,
                   session_state, markers>>

Footer ==
    /\ pc = "footer"
    /\ pc' = "done"
    /\ UNCHANGED <<app, fstat, files, selected_for_compare,
                   selected_compare_stations, spec_e, spec_s, cache,
                   df_compare, messages, heatmap, latest_rsam, level,
                   max_std, risk_text, runs,
                   session_state, markers>>

Next ==
    \/ ToggleEruption
    \/ ToggleStation
    \/ SelectSpecEruption
    \/ SelectSpecStation
    \/ MapSection
    \/ LoadAlignedHit
    \/ LoadAlignedMiss
    \/ Charts
    \/ Spectrogram
    \/ Footer

Spec == Init /\ [][Next]_vars

-----------------------------------------------------------------------------
(* Specification of a session in which the operator works the station      *)
(* widget of the map.  The files hold a station without coordinates.       *)

MapRows(name, len) ==
    SessionRows(name, len)
        \cup { Row(eruptions[name].time - 2880, Uncharted, {10}) }

InitMap ==
    /\ app \in Apps
    /\ fstat \in { f \in [Names -> FileStates] :
                     Cardinality({ n \in Names : f[n] # "ok" }) <= 1 }
    /\ \E len \in DenseLens :
           files = [n \in Names |->
                       IF fstat[n] = "ok" THEN MapRows(n, len) ELSE {}]
    /\ selected_for_compare = EruptionNames
    /\ selected_compare_stations =
           IF app = "Dashboard" THEN StationOrder ELSE <<>>
    /\ spec_e = EruptionNames[1]
    /\ spec_s = IF files[EruptionNames[1]] = {} THEN StationOrder[1]
                ELSE BestStation(files[EruptionNames[1]])
    /\ cache = {}
    /\ df_compare = <<>>
    /\ messages = <<>>
    /\ heatmap = <<>>
    /\ session_state = <<>>
    /\ markers = <<>>
    /\ runs = 1
    /\ pc = "map"
    /\ NoRisk

\* The operator selects or unselects one station of the map widget.
ToggleMapStation ==
    /\ Rerun
    /\ "selected_stations_map" \in DOMAIN session_state
    /\ \E st \in Range(available_stations(files[selected_main])) :
           session_state' =
               [session_state EXCEPT
                   !["selected_stations_map"] = Toggle(@, st)]
    /\ UNCHANGED <<selected_for_compare, selected_compare_stations, spec_e,
                   spec_s>>

NextMap ==
    \/ ToggleMapStation
    \/ MapSection
    \/ LoadAlignedHit
    \/ LoadAlignedMiss
    \/ Charts
    \/ Spectrogram
    \/ Footer

SpecMap == InitMap /\ [][NextMap]_vars

\* The map section of the current run is over.
MapDrawn ==
    /\ pc \notin {"map", "crashed_map"}
    /\ "selected_stations_map" \in DOMAIN session_state

\* The stations the widget shows as selected that have coordinates.
WidgetStations ==
    Range(session_state["selected_stations_map"]) \cap station_coords

\* C21: in every run of the script, the first run of a session included,
\* the stations drawn on the map are the stations selected in the station
\* widget of the map that have coordinates.
C21_MapShowsSelection == MapDrawn => Range(markers) = WidgetStations

\* What does hold: from the second run of a session on, the map shows the
\* widget's selection.
C21_FromSecondRun ==
    (MapDrawn /\ runs >= 2) => Range(markers) = WidgetStations

\* A later run, after the operator unselected a station: the widget holds a
\* station without coordinates and one with.
C21_FromSecondRun_Witness ==
    /\ MapDrawn
    /\ runs >= 2
    /\ Uncharted \in Range(session_state["selected_stations_map"])
    /\ "BON" \notin Range(session_state["selected_stations_map"])
    /\ markers # <<>>

-----------------------------------------------------------------------------
(* Specification of the spectrogram section alone: Init draws the file, the *)
(* eruption and the station, the script runs from the section to its end.  *)

SpectroLens == {0, 99, 100, 301, 360}

InitSpectro ==
    /\ app = "dashboard_v2"
    /\ fstat \in { f \in [Names -> FileStates] :
                     Cardinality({ n \in Names : f[n] # "ok" }) <= 1 }
    /\ \E len \in SpectroLens :
           files = [n \in Names |->
                       IF fstat[n] = "ok" THEN SessionRows(n, len) ELSE {}]
    /\ selected_for_compare = EruptionNames
    /\ selected_compare_stations = <<>>
    /\ spec_e \in Names
    /\ spec_s \in IF fstat[spec_e] = "ok" THEN StationsOf(files[spec_e])
                  ELSE Stations
    /\ cache = {}
    /\ df_compare = <<>>
    /\ messages = <<>>
    /\ heatmap = <<>>
    /\ session_state =
           IF fstat[selected_main] = "ok"
           THEN multiselect(<<>>, "selected_stations_map",
                    DefaultStations(available_stations(files[selected_main])))
           ELSE <<>>
    /\ markers = <<>>
    /\ runs = 1
    /\ pc = "spectrogram"
    /\ NoRisk

NextSpectro == Spectrogram \/ Footer

SpecSpectro == InitSpectro /\ [][NextSpectro]_vars

-----------------------------------------------------------------------------
(* Claims about the session and the spectrogram section *)

\* The rows the spectrogram section of the current run works on.
SpecRows == SpecWindow(files[spec_e], spec_e, spec_s)

\* C7: when the selected station has fewer than 100 rows within
\* [-48 h, +12 h] of the selected eruption, the spectrogram section shows the
\* not-enough-data error, draws no heatmap, and the script goes on to the
\* footer.
C7_NotEnoughData ==
    ( /\ app = "dashboard_v2"
      /\ pc \in {"footer", "done", "crashed_spectrogram"}
      /\ fstat[spec_e] = "ok"
      /\ spec_s \in StationsOf(files[spec_e])
      /\ Cardinality(SpecRows) < 100 ) =>
        /\ pc \in {"footer", "done"}
        /\ NotEnoughData \in Range(messages)
        /\ heatmap = <<>>

\* The run is over and the station had 99 rows in the window.
C7_Witness ==
    /\ app = "dashboard_v2"
    /\ pc = "done"
    /\ Cardinality(SpecRows) = 99
    /\ NotEnoughData \in Range(messages)

\* With enough rows the section does draw a heatmap.
C7_HeatmapDrawn ==
    /\ pc = "done"
    /\ heatmap # <<>>

\* C18: every column of the heatmap is drawn at the hours-from-eruption of
\* the centre of the segment it was computed from (the first sample's
\* offset, plus the segment's start, plus half its length, samples being
\* one minute apart), and so within [-48 h, +12 h].
C18_ColumnAtSegmentCentre ==
    \A h \in Range(heatmap) : \A k \in DOMAIN h.cols :
        LET col == h.cols[k]
        IN  /\ 2 * col.x = 2 * (h.first + col.start) + col.len
            /\ col.x >= -Hours(SpecBeforeHours)
            /\ col.x <= Hours(SpecAfterHours)

\* C19: whenever the selected station has at least 100 rows within
\* [-48 h, +12 h] of the selected eruption, the spectrogram section draws a
\* heatmap and the script goes on to the footer.
C19_EnoughDataDraws ==
    ( /\ app = "dashboard_v2"
      /\ pc \in {"footer", "done", "crashed_spectrogram"}
      /\ fstat[spec_e] = "ok"
      /\ spec_s \in StationsOf(files[spec_e])
      /\ Cardinality(SpecRows) >= 100 ) =>
        /\ pc \in {"footer", "done"}
        /\ heatmap # <<>>

\* What does hold: more rows than the overlap are enough.
C19_AboveOverlapDraws ==
    ( /\ app = "dashboard_v2"
      /\ pc \in {"footer", "done", "crashed_spectrogram"}
      /\ fstat[spec_e] = "ok"
      /\ spec_s \in StationsOf(files[spec_e])
      /\ Cardinality(SpecRows) > noverlap ) =>
        /\ pc \in {"footer", "done"}
        /\ heatmap # <<>>

\* The combined tables of the session: the one in use and the cached ones.
SessionTables == {df_compare} \cup { e.value.df : e \in cache }

\* C14: every row of a combined table tagged with eruption e carries the
\* colour of e in the colour table, so over all the tables computed in a
\* session no two rows of one eruption differ in colour.
C14_OneColorPerEruption ==
    /\ \A T \in SessionTables : \A i \in DOMAIN T :
           T[i].color = color_map[T[i].eruption]
    /\ \A T, U \in SessionTables : \A i \in DOMAIN T : \A j \in DOMAIN U :
           T[i].eruption = U[j].eruption => T[i].color = U[j].color

\* Two tables were computed in the session, for different selections, and
\* the one in use has rows of two eruptions.
C14_Witness ==
    /\ pc = "charts"
    /\ Cardinality(cache) >= 2
    /\ \E i, j \in DOMAIN df_compare :
           df_compare[i].eruption # df_compare[j].eruption

\* C8: when the load step of a run is over, the table in use is the one a
\* fresh call would return for the current eruption list and station list;
\* every cache entry holds the table of its own key, and no two entries
\* share a key.
C8_CacheServesFresh ==
    pc = "charts" =>
        /\ df_compare = load_aligned_selected(app, selected_for_compare,
                                              selected_compare_stations).df
        /\ \A e \in cache :
               /\ \A list \in SeqsNoDup(Names), stations \in StationLists(app) :
                      e.key = CacheKey(app, list, stations) =>
                          e.value.df =
                              load_aligned_selected(app, list, stations).df
               /\ \A f \in cache : f.key = e.key => f = e

\* The third run of a session is past its load step with fewer cache
\* entries than runs: a key came back and was served from the cache, after
\* the selection had changed in between.
C8_Witness ==
    /\ pc = "charts"
    /\ runs = 3
    /\ Cardinality(cache) = 2
    /\ df_compare # <<>>

-----------------------------------------------------------------------------
(* The script of src/app.py.  It has its own eruption table (four dates)   *)
(* and reads the amplitude_std column.  selected_for_compare holds its     *)
(* selected_eruptions, selected_compare_stations its selected_stations.    *)

D2016 == "11/09/2016"
D2019 == "25/10/2019"
D2020 == "07/12/2020"
D2023 == "02/07/2023"

eruption_dates == <<D2016, D2019, D2020, D2023>>

\* file_map: the dates that have a file.
file_map == Range(eruption_dates)

AppRow(t, s, v) == [time_min |-> t, station |-> s, amplitude_std |-> v]

\* The rows of the file of a date: one row per station, the first with a
\* value that differs from file to file, and a row without a value.
AppRows(d) ==
    LET std == (D2016 :> 2500) @@ (D2019 :> 3001) @@ (D2020 :> 30001) @@
               (D2023 :> 100001)
    IN  { AppRow(0, "BON", {std[d]}), AppRow(0, "DSM", {100}),
          AppRow(1, "DSM", NaN) }

\* load_data(d): pd.read_csv of the file of d, with the date attached;
\* reading a file that is missing or cannot be parsed raises.
load_data(d) ==
    [ raised |-> fstat[d] # "ok",
      df     |-> { [time_min |-> r.time_min, station |-> r.station,
                    amplitude_std |-> r.amplitude_std, eruption_date |-> d] :
                   r \in files[d] } ]

\* pd.concat([load_data(d) for d in selected_eruptions]) when the list is
\* not empty, pd.DataFrame() otherwise.  "columns" tells whether the table
\* has the columns of the files: the empty DataFrame has none.
sidebar_df(selected_eruptions) ==
    IF selected_eruptions # <<>>
    THEN [ raised  |-> \E d \in Range(selected_eruptions) : load_data(d).raised,
           columns |-> TRUE,
           df      |-> UNION { load_data(d).df : d \in Range(selected_eruptions) } ]
    ELSE [ raised |-> FALSE, columns |-> FALSE, df |-> {} ]

\* df[df["station"].isin(selected_stations)] if selected_stations else
\* pd.DataFrame()
df_filtered(df, selected_stations) ==
    IF selected_stations # <<>>
    THEN { r \in df : r.station \in Range(selected_stations) }
    ELSE {}

\* df["amplitude_std"].max() if not df.empty else 0
MaxStd(df) ==
    IF df = {} THEN {0}
    ELSE LET vals == UNION { r.amplitude_std : r \in df }
         IN  IF vals = {} THEN NaN
             ELSE { CHOOSE v \in vals : \A w \in vals : v >= w }

AucuneStation == Warning("Aucune station selectionnee.", "")

InitApp ==
    /\ app = "app"
    /\ fstat \in { f \in [file_map -> FileStates] :
                     Cardinality({ d \in file_map : f[d] # "ok" }) <= 1 }
    /\ files = [d \in file_map |-> IF fstat[d] = "ok" THEN AppRows(d) ELSE {}]
    /\ selected_for_compare = <<D2020>>
    /\ selected_compare_stations = StationOrder
    /\ spec_e = E2015
    /\ spec_s = "BON"
    /\ cache = {}
    /\ df_compare = <<>>
    /\ messages = <<>>
    /\ heatmap = <<>>
    /\ session_state = <<>>
    /\ markers = <<>>
    /\ runs = 1
    /\ pc = "sidebar"
    /\ NoRisk

\* A widget changed: the script runs again from the top.
RerunApp ==
    /\ pc = "done"
    /\ runs < MaxRuns
    /\ runs' = runs + 1
    /\ messages' = <<>>
    /\ pc' = "sidebar"
    /\ UNCHANGED <<app, fstat, files, spec_e, spec_s, cache, df_compare,
                   heatmap, latest_rsam, level, max_std, risk_text,
                   session_state, markers>>

\* The operator selects or unselects one eruption date.
ToggleDate ==
    /\ RerunApp
    /\ \E d \in file_map : selected_for_compare' = Toggle(selected_for_compare, d)
    /\ UNCHANGED selected_compare_stations

\* The operator selects or unselects one station.
ToggleStationApp ==
    /\ RerunApp
    /\ \E s \in Stations :
           selected_compare_stations' = Toggle(selected_compare_stations, s)
    /\ UNCHANGED selected_for_compare

\* SIDEBAR: the files of the selected dates are read and concatenated, then
\* stations = sorted(df["station"].unique()); indexing a table that has no
\* "station" column raises KeyError.
Sidebar ==
    /\ pc = "sidebar"
    /\ LET loaded == sidebar_df(selected_for_compare)
       IN  pc' = IF loaded.raised \/ ~loaded.columns THEN "crashed_sidebar"
                 ELSE "risque"
    /\ UNCHANGED <<app, fstat, files, selected_for_compare,
                   selected_compare_stations, spec_e, spec_s, cache,
                   df_compare, messages, heatmap, latest_rsam, level,
                   max_std, risk_text, runs,
                   session_state, markers>>

\* RISQUE: the highest amplitude_std of the loaded rows is classified.
Risque ==
    /\ pc = "risque"
    /\ max_std' = MaxStd(sidebar_df(selected_for_compare).df)
    /\ risk_text' = RiskTexts[StdTier(max_std')]
    /\ pc' = "colonne_risque"
    /\ UNCHANGED <<app, fstat, files, selected_for_compare,
                   selected_compare_stations, spec_e, spec_s, cache,
                   df_compare, messages, heatmap, latest_rsam, level, runs,
                   session_state, markers>>

\* risk_color of each tier, least severe first.
RiskColors == <<"green", "goldenrod", "orange", "red", "purple">>

\* The legend: (colour, text) from the most severe entry down; accents are
\* left out, as in RiskTexts.
legend ==
    << [col |-> "purple",    txt |-> "Eruption en cours"],
       [col |-> "red",       txt |-> "Risque tres eleve (<1h)"],
       [col |-> "orange",    txt |-> "Risque eleve (<12h)"],
       [col |-> "goldenrod", txt |-> "Risque modere (<24h)"],
       [col |-> "green",     txt |-> "Pas de risque detecte"] >>

\* for col, txt in legend: the entry whose text equals risk_text is rendered
\* as the current one ("ACTUEL"), every other entry as a plain line.
LegendElements(text) ==
    [ k \in DOMAIN legend |->
        [ kind |-> IF legend[k].txt = text THEN "actuel" ELSE "legend",
          text |-> legend[k].txt,
          name |-> legend[k].col ] ]

\* COLONNE RISQUE: the current level and the legend are rendered.
ColonneRisque ==
    /\ pc = "colonne_risque"
    /\ messages' = messages \o LegendElements(risk_text)
    /\ pc' = "carte"
    /\ UNCHANGED <<app, fstat, files, selected_for_compare,
                   selected_compare_stations, spec_e, spec_s, cache,
                   df_compare, heatmap, latest_rsam, level, max_std,
                   risk_text, runs, session_state, markers>>

\* CARTE: the map of the selected stations, drawn when there is one.
Carte ==
    /\ pc = "carte"
    /\ pc' = "graphiques"
    /\ UNCHANGED <<app, fstat, files, selected_for_compare,
                   selected_compare_stations, spec_e, spec_s, cache,
                   df_compare, messages, heatmap, latest_rsam, level,
                   max_std, risk_text, runs,
                   session_state, markers>>

\* GRAPHIQUES: if not df_filtered.empty the charts, else a warning.
Graphiques ==
    /\ pc = "graphiques"
    /\ messages' =
           IF df_filtered(sidebar_df(selected_for_compare).df,
                          selected_compare_stations) # {}
           THEN messages
           ELSE Append(messages, AucuneStation)
    /\ pc' = "done"
    /\ UNCHANGED <<app, fstat, files, selected_for_compare,
                   selected_compare_stations, spec_e, spec_s, cache,
                   df_compare, heatmap, latest_rsam, level, max_std,
                   risk_text, runs,
                   session_state, markers>>

NextApp ==
    \/ ToggleDate
    \/ ToggleStationApp
    \/ Sidebar
    \/ Risque
    \/ ColonneRisque
    \/ Carte
    \/ Graphiques

SpecApp == InitApp /\ [][NextApp]_vars

-----------------------------------------------------------------------------
(* Claims about the script of src/app.py, checked under SpecApp *)

\* C12: for every selection of the operator, the empty eruption list and
\* the empty station list included, a run of the script goes to its end
\* without an unhandled exception (every file being readable).
C12_RunCompletes ==
    (\A d \in file_map : fstat[d] = "ok") => pc # "crashed_sidebar"

\* What does hold: with no station selected the run ends with the warning.
C12_NoStationWarned ==
    (pc = "done" /\ selected_compare_stations = <<>>) =>
        AucuneStation \in Range(messages)

C12_NoStationWitness ==
    /\ pc = "done"
    /\ selected_compare_stations = <<>>
    /\ runs > 1

\* The legend of the current run is rendered.
LegendRendered == pc \in {"carte", "graphiques", "done"}

\* The legend entries rendered as the current level in this run.
Actuel == { i \in DOMAIN messages : messages[i].kind = "actuel" }

\* C22: whatever the maximum amplitude standard deviation, exactly one of
\* the five legend entries is rendered as the current level, and it is the
\* entry whose colour is the computed risk colour.
C22_OneCurrentEntry ==
    LegendRendered =>
        /\ Cardinality(Actuel) = 1
        /\ \A i \in Actuel :
               messages[i].name = RiskColors[Rank(RiskTexts, risk_text)]

\* What does hold: an entry is rendered as current exactly when the tier is
\* the most severe one, and then it is the purple entry; in every other tier
\* no entry is.
C22_OnlyEruptionMarked ==
    LegendRendered =>
        IF risk_text = RiskTexts[5]
        THEN /\ Cardinality(Actuel) = 1
             /\ \A i \in Actuel : messages[i].name = RiskColors[5]
        ELSE Actuel = {}

\* A run in the most severe tier, and a run in the least severe one.
C22_EruptionRun == LegendRendered /\ risk_text = RiskTexts[5]

C22_NoRiskRun == LegendRendered /\ risk_text = RiskTexts[1]

====
